---- MODULE Spec2Model ----
(***************************************************************************)
(* Model of the Rcu<T> cell of src/main.rs: Rcu::new, Rcu::read,           *)
(* Rcu::update and RcuSubscriber::read, one action per atomic operation,   *)
(* interleaved sequentially consistently.  Box allocations live in a heap  *)
(* of addresses that the allocator may hand out again after a free.        *)
(* Variables whose comment says "history" record what happened and are     *)
(* never read by a guard or an assignment of a program variable.           *)
(***************************************************************************)
EXTENDS Integers, Sequences, FiniteSets, TLC

\* Bounds of the harness: update and read calls the threads make at any
\* time, and update calls made afterwards, each begun when those calls
\* have all been made and every thread is outside a call (as a caller does
\* once its workers have been joined).
MaxUpdates == 3
MaxReads == 2
MaxLateUpdates == 1
\* The calls made in the runs on which termination is checked.
LiveUpdates == 2
LiveReads == 2

\* Threads holding &Rcu (they read and update) and threads holding an
\* RcuSubscriber (they only read).
RcuThreads == {"t1", "t2"}
SubThreads == {"s1"}
Threads == RcuThreads \cup SubThreads

\* One address per allocation suffices; a freed address may be reused.
Addr == 1..(MaxUpdates + 1)
Null == 0
\* Allocation identities: 1 is the value given to Rcu::new, the others the
\* arguments of update in allocation order.  The value stored in an
\* allocation is its identity, so distinct calls carry distinct values.
Ids == 1..(MaxUpdates + MaxLateUpdates + 1)
\* What a read of freed memory may yield besides any value.
Garbage == 0
\* The AtomicU32 wraps on underflow; stands for u32::MAX, which is beyond
\* the integers TLC represents.
U32Wrap == 2147483647

VARIABLES
    data_ptr,     \* Rcu.data_ptr: address of the installed version
    prev_ptr,     \* Rcu.prev_ptr
    cur_readers,  \* Rcu.cur_readers
    write_flag,   \* Rcu.write_flag
    heap,         \* address -> identity of the live allocation there, 0 if none
    brk,          \* highest address the allocator has handed out so far
    pc,           \* thread -> position in its current call
    neo,          \* thread -> local `neo` of update
    prev,         \* thread -> local `prev` of update
    old,          \* thread -> local `old` of update
    ptr,          \* thread -> pointer loaded by read
    data,         \* thread -> value returned by the thread's last read
    result,       \* thread -> value returned by the thread's last update
    nextId,       \* history: identity of the next allocation
    nReads,       \* history: read calls made
    order,        \* history: identities installed, in compare-exchange order
    freed,        \* history: identity -> number of times it was freed
    freer,        \* history: identity -> update call (by its neo) that freed it
    replacer,     \* history: identity -> update call whose CAS replaced it
    badFree,      \* history: a free hit an address not holding its allocation
    callId,       \* history: thread -> identity of the neo of its update call
    oldId,        \* history: thread -> identity its CAS replaced
    rid,          \* history: thread -> identity at ptr when read loaded it
    regVer,       \* history: thread -> successful CASes before its increment
    floor,        \* history: thread -> newest version returned before its read began
    maxRet,       \* history: newest version any finished read returned
    ovl,          \* history: thread -> its update call overlapped another one
    startRet,     \* history: thread -> update calls returned when its read began
    nUpdRet,      \* history: update calls that have returned
    loadVer,      \* history: thread -> successful CASes before its load of prev_ptr
    stale         \* history: thread -> a writer was between its CAS and its
                  \*          store of prev_ptr when the thread loaded prev_ptr

cell == <<data_ptr, prev_ptr, cur_readers, write_flag>>
mem == <<heap, brk>>
locals == <<neo, prev, old, ptr, data, result>>
hist == <<nextId, nReads, order, freed, freer, replacer, badFree, callId, oldId,
          rid, regVer, floor, maxRet, ovl, startRet, nUpdRet, loadVer, stale>>
vars == <<cell, mem, pc, locals, hist>>

\* Positions of a thread outside any call.
Idle == {"idle", "r_ret", "u_ret"}
\* Positions inside Rcu::update.
InUpdate == {"u_prev", "u_flag", "u_cas", "u_setflag", "u_drain", "u_storeprev",
             "u_dropold", "u_clearflag", "u_dropneo"}
\* Positions inside read.
InRead == {"r_flag", "r_inc", "r_load", "r_clone", "r_dec"}

\* Position of identity i in the order of successful compare-exchanges
\* (1 for the initial value), 0 if it was never installed.
RECURSIVE VerFrom(_, _)
VerFrom(i, k) == IF k = 0 THEN 0
                 ELSE IF order[k] = i THEN k ELSE VerFrom(i, k - 1)
Ver(i) == VerFrom(i, Len(order))

Max(a, b) == IF a >= b THEN a ELSE b

\* Rcu::new: one allocation, both pointers on it, no reader, gate open.
Init ==
    /\ data_ptr = 1 /\ prev_ptr = 1 /\ cur_readers = 0 /\ write_flag = FALSE
    /\ heap = [a \in Addr |-> IF a = 1 THEN 1 ELSE 0]
    /\ brk = 1
    /\ pc = [t \in Threads |-> "idle"]
    /\ neo = [t \in Threads |-> Null]
    /\ prev = [t \in Threads |-> Null]
    /\ old = [t \in Threads |-> Null]
    /\ ptr = [t \in Threads |-> Null]
    /\ data = [t \in Threads |-> 0]
    /\ result = [t \in Threads |-> FALSE]
    /\ nextId = 2 /\ nReads = 0
    /\ order = <<1>>
    /\ freed = [i \in Ids |-> 0]
    /\ freer = [i \in Ids |-> 0]
    /\ replacer = [i \in Ids |-> 0]
    /\ badFree = FALSE
    /\ callId = [t \in Threads |-> 0]
    /\ oldId = [t \in Threads |-> 0]
    /\ rid = [t \in Threads |-> 0]
    /\ regVer = [t \in Threads |-> 0]
    /\ floor = [t \in Threads |-> 0]
    /\ maxRet = 0
    /\ ovl = [t \in Threads |-> FALSE]
    /\ startRet = [t \in Threads |-> 0]
    /\ nUpdRet = 0
    /\ loadVer = [t \in Threads |-> 0]
    /\ stale = [t \in Threads |-> FALSE]

\* Mutant: the decrement takes two.
FetchSubTwo(c) == IF c <= 1 THEN U32Wrap - (1 - c) ELSE c - 2

\* AtomicU32::fetch_add(1) and fetch_sub(1), wrapping.
FetchAdd(c) == IF c = U32Wrap THEN 0 ELSE c + 1
FetchSub(c) == IF c = 0 THEN U32Wrap ELSE c - 1

\* Box::new: the allocator returns an address holding no live allocation,
\* either one freed earlier or the next one never handed out.
FreeAddrs == {a \in Addr : heap[a] = 0 /\ a <= brk + 1}

\* Mutant: the branches of the compare-exchange taken the wrong way round.
CasInverted(current, expected) == current # expected

\* AtomicPtr::compare_exchange(expected, _) succeeds iff the current
\* pointer equals the expected one (comparison of addresses).
CasSucceeds(current, expected) == current = expected

\* Mutant: the drain loop stops while one reader is still registered.
DrainSkipsLastReader == cur_readers > 1

\* The loop condition of the two loops on write_flag.
GateClosed == write_flag
\* The loop condition of the drain loop.
ReadersPresent == cur_readers > 0

\* The locals of update end with the call.
LeaveUpdate(t) ==
    /\ neo' = [neo EXCEPT ![t] = Null]
    /\ prev' = [prev EXCEPT ![t] = Null]
    /\ old' = [old EXCEPT ![t] = Null]

\* A thread starts a call with the results and history of its previous call
\* cleared.
ResetLocals(t) ==
    /\ neo' = [neo EXCEPT ![t] = Null]
    /\ prev' = [prev EXCEPT ![t] = Null]
    /\ old' = [old EXCEPT ![t] = Null]
    /\ ptr' = [ptr EXCEPT ![t] = Null]
    /\ data' = [data EXCEPT ![t] = 0]
    /\ result' = [result EXCEPT ![t] = FALSE]

(***************************************************************************)
(* read: Rcu::read and RcuSubscriber::read run the same steps on the same  *)
(* three atomics.                                                          *)
(***************************************************************************)

\* The call of read: nothing is touched yet.
BeginRead(t) ==
    /\ pc[t] \in Idle
    /\ nReads < MaxReads
    /\ pc' = [pc EXCEPT ![t] = "r_flag"]
    /\ ResetLocals(t)
    /\ nReads' = nReads + 1
    /\ floor' = [floor EXCEPT ![t] = maxRet]
    /\ startRet' = [startRet EXCEPT ![t] = nUpdRet]
    /\ callId' = [callId EXCEPT ![t] = 0]
    /\ oldId' = [oldId EXCEPT ![t] = 0]
    /\ rid' = [rid EXCEPT ![t] = 0]
    /\ regVer' = [regVer EXCEPT ![t] = 0]
    /\ ovl' = [ovl EXCEPT ![t] = FALSE]
    /\ loadVer' = [loadVer EXCEPT ![t] = 0]
    /\ stale' = [stale EXCEPT ![t] = FALSE]
    /\ UNCHANGED <<cell, mem, nextId, order, freed, freer, replacer, badFree,
                   maxRet, nUpdRet>>

\* while write_flag.load(Acquire) { spin_loop() }: one turn of the loop.
GateSpin(t) ==
    /\ pc[t] = "r_flag"
    /\ GateClosed
    /\ UNCHANGED vars

\* The load of write_flag that ends the loop.
GatePass(t) ==
    /\ pc[t] = "r_flag"
    /\ ~GateClosed
    /\ pc' = [pc EXCEPT ![t] = "r_inc"]
    /\ UNCHANGED <<cell, mem, locals, hist>>

\* cur_readers.fetch_add(1, SeqCst)
Register(t) ==
    /\ pc[t] = "r_inc"
    /\ cur_readers' = FetchAdd(cur_readers)
    /\ regVer' = [regVer EXCEPT ![t] = Len(order)]
    /\ pc' = [pc EXCEPT ![t] = "r_load"]
    /\ UNCHANGED <<data_ptr, prev_ptr, write_flag, mem, locals, nextId, nReads,
                   order, freed, freer, replacer, badFree, callId, oldId, rid,
                   floor, maxRet, ovl, startRet, nUpdRet, loadVer, stale>>

\* Mutant: read loads prev_ptr instead of data_ptr.
LoadDataFromPrev(t) ==
    /\ pc[t] = "r_load"
    /\ ptr' = [ptr EXCEPT ![t] = prev_ptr]
    /\ rid' = [rid EXCEPT ![t] = heap[prev_ptr]]
    /\ pc' = [pc EXCEPT ![t] = "r_clone"]
    /\ UNCHANGED <<cell, mem, neo, prev, old, data, result, nextId, nReads,
                   order, freed, freer, replacer, badFree, callId, oldId, regVer,
                   floor, maxRet, ovl, startRet, nUpdRet, loadVer, stale>>

\* data_ptr.load(..)
LoadData(t) ==
    /\ pc[t] = "r_load"
    /\ ptr' = [ptr EXCEPT ![t] = data_ptr]
    /\ rid' = [rid EXCEPT ![t] = heap[data_ptr]]
    /\ pc' = [pc EXCEPT ![t] = "r_clone"]
    /\ UNCHANGED <<cell, mem, neo, prev, old, data, result, nextId, nReads,
                   order, freed, freer, replacer, badFree, callId, oldId, regVer,
                   floor, maxRet, ovl, startRet, nUpdRet, loadVer, stale>>

\* (*ptr).clone(): the value of the allocation, if it is still the one that
\* was loaded; a use after free yields anything.
CloneData(t) ==
    /\ pc[t] = "r_clone"
    /\ \E v \in {Garbage} \cup Ids :
         /\ (rid[t] # 0 /\ heap[ptr[t]] = rid[t]) => v = heap[ptr[t]]
         /\ data' = [data EXCEPT ![t] = v]
    /\ pc' = [pc EXCEPT ![t] = "r_dec"]
    /\ UNCHANGED <<cell, mem, neo, prev, old, ptr, result, hist>>

\* Mutant: read returns without the fetch_sub.
UnregisterForgets(t) ==
    /\ pc[t] = "r_dec"
    /\ maxRet' = Max(maxRet, Ver(data[t]))
    /\ ptr' = [ptr EXCEPT ![t] = Null]
    /\ pc' = [pc EXCEPT ![t] = "r_ret"]
    /\ UNCHANGED <<cell, mem, neo, prev, old, data,
                   result, nextId, nReads,
                   order, freed, freer, replacer, badFree, callId, oldId, rid,
                   regVer, floor, ovl, startRet, nUpdRet, loadVer,
                   stale>>

\* cur_readers.fetch_sub(1, SeqCst); data
Unregister(t) ==
    /\ pc[t] = "r_dec"
    /\ cur_readers' = FetchSub(cur_readers)
    /\ maxRet' = Max(maxRet, Ver(data[t]))
    /\ ptr' = [ptr EXCEPT ![t] = Null]
    /\ pc' = [pc EXCEPT ![t] = "r_ret"]
    /\ UNCHANGED <<data_ptr, prev_ptr, write_flag, mem, neo, prev, old, data,
                   result, nextId, nReads,
                   order, freed, freer, replacer, badFree, callId, oldId, rid,
                   regVer, floor, ovl, startRet, nUpdRet, loadVer,
                   stale>>

\* Rcu::read
ReadCall(t) == t \in RcuThreads /\ BeginRead(t)
ReadSpin(t) == t \in RcuThreads /\ GateSpin(t)
ReadPass(t) == t \in RcuThreads /\ GatePass(t)
ReadInc(t) == t \in RcuThreads /\ Register(t)
ReadLoad(t) == t \in RcuThreads /\ LoadData(t)
ReadClone(t) == t \in RcuThreads /\ CloneData(t)
ReadDec(t) == t \in RcuThreads /\ Unregister(t)

\* RcuSubscriber::read
SubCall(t) == t \in SubThreads /\ BeginRead(t)
SubSpin(t) == t \in SubThreads /\ GateSpin(t)
SubPass(t) == t \in SubThreads /\ GatePass(t)
SubInc(t) == t \in SubThreads /\ Register(t)
SubLoad(t) == t \in SubThreads /\ LoadData(t)
SubClone(t) == t \in SubThreads /\ CloneData(t)
SubDec(t) == t \in SubThreads /\ Unregister(t)

(***************************************************************************)
(* Rcu::update                                                             *)
(***************************************************************************)

\* let neo = Box::into_raw(Box::new(new_val)): the call begins.
UpdateAlloc(t) ==
    /\ t \in RcuThreads
    /\ pc[t] \in Idle
    /\ \/ nextId <= MaxUpdates + 1
       \/ /\ nextId <= MaxUpdates + MaxLateUpdates + 1
          /\ nReads = MaxReads
          /\ \A u \in Threads : pc[u] \in Idle
    /\ \E a \in FreeAddrs :
         /\ heap' = [heap EXCEPT ![a] = nextId]
         /\ brk' = Max(brk, a)
         /\ neo' = [neo EXCEPT ![t] = a]
    /\ prev' = [prev EXCEPT ![t] = Null]
    /\ old' = [old EXCEPT ![t] = Null]
    /\ ptr' = [ptr EXCEPT ![t] = Null]
    /\ data' = [data EXCEPT ![t] = 0]
    /\ result' = [result EXCEPT ![t] = FALSE]
    /\ callId' = [callId EXCEPT ![t] = nextId]
    /\ nextId' = nextId + 1
    /\ oldId' = [oldId EXCEPT ![t] = 0]
    /\ rid' = [rid EXCEPT ![t] = 0]
    /\ regVer' = [regVer EXCEPT ![t] = 0]
    /\ loadVer' = [loadVer EXCEPT ![t] = 0]
    /\ stale' = [stale EXCEPT ![t] = FALSE]
    /\ ovl' = [u \in Threads |->
                 IF u = t THEN \E w \in Threads \ {t} : pc[w] \in InUpdate
                 ELSE IF pc[u] \in InUpdate THEN TRUE ELSE ovl[u]]
    /\ pc' = [pc EXCEPT ![t] = "u_prev"]
    /\ UNCHANGED <<cell, nReads, order, freed, freer, replacer, badFree, floor,
                   maxRet, startRet, nUpdRet>>

\* Mutant: the load of prev_ptr is made only once write_flag is clear.
UpdateLoadPrevWaits(t) ==
    /\ pc[t] = "u_prev"
    /\ ~GateClosed
    /\ prev' = [prev EXCEPT ![t] = prev_ptr]
    /\ pc' = [pc EXCEPT ![t] = "u_flag"]
    /\ loadVer' = [loadVer EXCEPT ![t] = Len(order)]
    /\ stale' = [stale EXCEPT ![t] =
                   \E w \in Threads \ {t} :
                       pc[w] \in {"u_setflag", "u_drain", "u_storeprev"}]
    /\ UNCHANGED <<cell, mem, neo, old, ptr, data, result, nextId, nReads,
                   order, freed, freer, replacer, badFree, callId, oldId, rid,
                   regVer, floor, maxRet, ovl, startRet, nUpdRet>>

\* let prev = self.prev_ptr.load(Acquire)
UpdateLoadPrev(t) ==
    /\ pc[t] = "u_prev"
    /\ prev' = [prev EXCEPT ![t] = prev_ptr]
    /\ pc' = [pc EXCEPT ![t] = "u_flag"]
    /\ loadVer' = [loadVer EXCEPT ![t] = Len(order)]
    /\ stale' = [stale EXCEPT ![t] =
                   \E w \in Threads \ {t} :
                       pc[w] \in {"u_setflag", "u_drain", "u_storeprev"}]
    /\ UNCHANGED <<cell, mem, neo, old, ptr, data, result, nextId, nReads,
                   order, freed, freer, replacer, badFree, callId, oldId, rid,
                   regVer, floor, maxRet, ovl, startRet, nUpdRet>>

\* while self.write_flag.load(Acquire) { spin_loop() }: one turn.
UpdateSpin(t) ==
    /\ pc[t] = "u_flag"
    /\ GateClosed
    /\ UNCHANGED vars

\* Mutant: the writer raises write_flag when it leaves the loop, before its
\* compare-exchange.
UpdatePassSetsFlag(t) ==
    /\ pc[t] = "u_flag"
    /\ ~GateClosed
    /\ write_flag' = TRUE
    /\ pc' = [pc EXCEPT ![t] = "u_cas"]
    /\ UNCHANGED <<data_ptr, prev_ptr, cur_readers, mem, locals, hist>>

\* The load of write_flag that ends the loop.
UpdatePass(t) ==
    /\ pc[t] = "u_flag"
    /\ ~GateClosed
    /\ pc' = [pc EXCEPT ![t] = "u_cas"]
    /\ UNCHANGED <<cell, mem, locals, hist>>

\* self.data_ptr.compare_exchange(prev, neo, Release, Relaxed)
UpdateCas(t) ==
    /\ pc[t] = "u_cas"
    /\ IF CasSucceeds(data_ptr, prev[t])
       THEN /\ data_ptr' = neo[t]
            /\ old' = [old EXCEPT ![t] = data_ptr]
            /\ oldId' = [oldId EXCEPT ![t] = heap[data_ptr]]
            /\ order' = Append(order, callId[t])
            /\ replacer' = [i \in Ids |->
                              IF i = heap[data_ptr] THEN callId[t] ELSE replacer[i]]
            /\ pc' = [pc EXCEPT ![t] = "u_setflag"]
       ELSE /\ pc' = [pc EXCEPT ![t] = "u_dropneo"]
            /\ UNCHANGED <<data_ptr, old, oldId, order, replacer>>
    /\ UNCHANGED <<prev_ptr, cur_readers, write_flag, mem, neo, prev, ptr, data,
                   result, nextId, nReads, freed, freer, badFree, callId, rid,
                   regVer, floor, maxRet, ovl, startRet, nUpdRet, loadVer, stale>>

\* self.write_flag.store(true, Release)
UpdateSetFlag(t) ==
    /\ pc[t] = "u_setflag"
    /\ write_flag' = TRUE
    /\ pc' = [pc EXCEPT ![t] = "u_drain"]
    /\ UNCHANGED <<data_ptr, prev_ptr, cur_readers, mem, locals, hist>>

\* while self.cur_readers.load(SeqCst) > 0 { spin_loop() }: one turn.
UpdateDrainSpin(t) ==
    /\ pc[t] = "u_drain"
    /\ ReadersPresent
    /\ UNCHANGED vars

\* Mutant: the writer does not wait for the readers.
UpdateDrainedBlind(t) ==
    /\ pc[t] = "u_drain"
    /\ pc' = [pc EXCEPT ![t] = "u_storeprev"]
    /\ UNCHANGED <<cell, mem, locals, hist>>

\* The load of cur_readers that ends the loop.
UpdateDrained(t) ==
    /\ pc[t] = "u_drain"
    /\ ~ReadersPresent
    /\ pc' = [pc EXCEPT ![t] = "u_storeprev"]
    /\ UNCHANGED <<cell, mem, locals, hist>>

\* self.prev_ptr.store(neo, Release)
UpdateStorePrev(t) ==
    /\ pc[t] = "u_storeprev"
    /\ prev_ptr' = neo[t]
    /\ pc' = [pc EXCEPT ![t] = "u_dropold"]
    /\ UNCHANGED <<data_ptr, cur_readers, write_flag, mem, locals, hist>>

\* drop(Box::from_raw(p)) by the update call of thread t, which takes the
\* allocation at p to be identity i.
Drop(t, p, i) ==
    /\ heap' = [heap EXCEPT ![p] = 0]
    /\ freed' = [freed EXCEPT ![i] = @ + 1]
    /\ freer' = [freer EXCEPT ![i] = callId[t]]
    /\ badFree' = (badFree \/ heap[p] # i)
    /\ UNCHANGED brk

\* Mutant: the old version is never dropped.
UpdateDropOldLeaks(t) ==
    /\ pc[t] = "u_dropold"
    /\ pc' = [pc EXCEPT ![t] = "u_clearflag"]
    /\ UNCHANGED <<cell, mem, locals, hist>>

\* Mutant: the success branch drops neo, the version it has just installed.
UpdateDropOldDropsNeo(t) ==
    /\ pc[t] = "u_dropold"
    /\ Drop(t, neo[t], callId[t])
    /\ pc' = [pc EXCEPT ![t] = "u_clearflag"]
    /\ UNCHANGED <<cell, locals, nextId, nReads, order, replacer, callId, oldId,
                   rid, regVer, floor, maxRet, ovl, startRet, nUpdRet, loadVer,
                   stale>>

\* unsafe { drop(Box::from_raw(old)) }
UpdateDropOld(t) ==
    /\ pc[t] = "u_dropold"
    /\ Drop(t, old[t], oldId[t])
    /\ pc' = [pc EXCEPT ![t] = "u_clearflag"]
    /\ UNCHANGED <<cell, locals, nextId, nReads, order, replacer, callId, oldId,
                   rid, regVer, floor, maxRet, ovl, startRet, nUpdRet, loadVer,
                   stale>>

\* Mutant: update returns true without clearing write_flag.
UpdateKeepsFlag(t) ==
    /\ pc[t] = "u_clearflag"
    /\ result' = [result EXCEPT ![t] = TRUE]
    /\ nUpdRet' = nUpdRet + 1
    /\ LeaveUpdate(t)
    /\ pc' = [pc EXCEPT ![t] = "u_ret"]
    /\ UNCHANGED <<cell, mem, ptr, data, nextId, nReads, order, freed, freer,
                   replacer, badFree, callId, oldId, rid, regVer, floor, maxRet,
                   ovl, startRet, loadVer, stale>>

\* self.write_flag.store(false, Release); true
UpdateClearFlag(t) ==
    /\ pc[t] = "u_clearflag"
    /\ write_flag' = FALSE
    /\ result' = [result EXCEPT ![t] = TRUE]
    /\ nUpdRet' = nUpdRet + 1
    /\ LeaveUpdate(t)
    /\ pc' = [pc EXCEPT ![t] = "u_ret"]
    /\ UNCHANGED <<data_ptr, prev_ptr, cur_readers, mem, ptr,
                   data, nextId, nReads, order, freed, freer, replacer, badFree,
                   callId, oldId, rid, regVer, floor, maxRet, ovl, startRet,
                   loadVer, stale>>

\* Mutant: the failure branch clears write_flag as the success branch does.
UpdateDropNeoClearsFlag(t) ==
    /\ pc[t] = "u_dropneo"
    /\ Drop(t, neo[t], callId[t])
    /\ write_flag' = FALSE
    /\ result' = [result EXCEPT ![t] = FALSE]
    /\ nUpdRet' = nUpdRet + 1
    /\ LeaveUpdate(t)
    /\ pc' = [pc EXCEPT ![t] = "u_ret"]
    /\ UNCHANGED <<data_ptr, prev_ptr, cur_readers, ptr, data, nextId, nReads,
                   order, replacer, callId, oldId, rid, regVer, floor, maxRet,
                   ovl, startRet, loadVer, stale>>

\* unsafe { drop(Box::from_raw(neo)) }; false
UpdateDropNeo(t) ==
    /\ pc[t] = "u_dropneo"
    /\ Drop(t, neo[t], callId[t])
    /\ result' = [result EXCEPT ![t] = FALSE]
    /\ nUpdRet' = nUpdRet + 1
    /\ LeaveUpdate(t)
    /\ pc' = [pc EXCEPT ![t] = "u_ret"]
    /\ UNCHANGED <<cell, ptr, data, nextId, nReads, order,
                   replacer, callId, oldId, rid, regVer, floor, maxRet, ovl, startRet,
                   loadVer, stale>>

\* The steps of thread t.
ThreadNext(t) ==
    \/ ReadCall(t) \/ ReadSpin(t) \/ ReadPass(t) \/ ReadInc(t)
    \/ ReadLoad(t) \/ ReadClone(t) \/ ReadDec(t)
    \/ SubCall(t) \/ SubSpin(t) \/ SubPass(t) \/ SubInc(t)
    \/ SubLoad(t) \/ SubClone(t) \/ SubDec(t)
    \/ UpdateAlloc(t) \/ UpdateLoadPrev(t) \/ UpdateSpin(t) \/ UpdatePass(t)
    \/ UpdateCas(t) \/ UpdateSetFlag(t) \/ UpdateDrainSpin(t)
    \/ UpdateDrained(t) \/ UpdateStorePrev(t) \/ UpdateDropOld(t)
    \/ UpdateClearFlag(t) \/ UpdateDropNeo(t)

Next == \E t \in Threads : ThreadNext(t)

Spec == Init /\ [][Next]_vars

\* Every thread is an OS thread that keeps being scheduled: a thread that
\* can leave its position eventually does.  A turn of a spin loop changes
\* nothing, so a thread spinning on a condition that stays true makes no
\* progress.
WithinLive == nextId' <= LiveUpdates + 2 /\ nReads' <= LiveReads
LiveNext == Next /\ WithinLive
FairSpec ==
    /\ Init /\ [][LiveNext]_vars
    /\ \A t \in Threads : WF_vars(ThreadNext(t) /\ WithinLive)

TypeOK ==
    /\ data_ptr \in Addr /\ prev_ptr \in Addr
    /\ cur_readers \in 0..Cardinality(Threads)
    /\ write_flag \in BOOLEAN
    /\ heap \in [Addr -> {0} \cup Ids]

(***************************************************************************)
(* Vocabulary of the properties                                            *)
(***************************************************************************)

\* Thread t holds a pointer it loaded in read and has not unregistered.
Holding(t) == pc[t] \in {"r_clone", "r_dec"}
\* Thread t's last call was a read, and it has returned.
ReadReturned(t) == pc[t] = "r_ret"
\* Thread t's last call was an update, and it has returned.
UpdateReturned(t) == pc[t] = "u_ret"
\* Thread t is between its successful compare-exchange and its final store
\* to write_flag.
InCritical(t) == pc[t] \in {"u_setflag", "u_drain", "u_storeprev", "u_dropold",
                            "u_clearflag"}
\* Thread t took a step.
Moved(t) == pc'[t] # pc[t]

\* C1: a pointer loaded by a reader designates, until the reader's decrement,
\* the live allocation it designated at the load, which was installed in
\* the cell; the value a read returns is the value of that allocation.
C1_ReadSeesLiveInstalledVersion ==
    \A t \in Threads :
        /\ Holding(t) => /\ rid[t] # 0
                         /\ heap[ptr[t]] = rid[t]
                         /\ freed[rid[t]] = 0
                         /\ Ver(rid[t]) > 0
        /\ (pc[t] = "r_dec" \/ ReadReturned(t)) => /\ data[t] = rid[t]
                                                   /\ Ver(data[t]) > 0

\* C1 witness: a reader still holds the version that a writer has replaced
\* and is waiting to free.
C1_Witness ==
    \E t \in Threads, w \in RcuThreads :
        /\ Holding(t) /\ pc[w] = "u_drain" /\ oldId[w] = rid[t]

\* C1 witness of the result: a read returned the replaced version after it
\* had been freed.
C1_WitnessReturned ==
    \E t \in Threads : ReadReturned(t) /\ freed[data[t]] = 1

\* C2: no allocation is freed twice or through a pointer that is not its
\* own; a replaced version is freed by the call whose compare-exchange
\* replaced it, a rejected one by its own call; and when update has
\* returned true the version it replaced has been freed by it, once.
C2_FreedExactlyOnce ==
    /\ ~badFree
    /\ \A i \in Ids :
        /\ freed[i] <= 1
        /\ (freed[i] = 1 /\ Ver(i) > 0) => (replacer[i] # 0 /\ freer[i] = replacer[i])
        /\ (freed[i] = 1 /\ Ver(i) = 0) => freer[i] = i
    /\ \A t \in RcuThreads :
        (UpdateReturned(t) /\ result[t]) =>
            /\ freed[oldId[t]] = 1
            /\ freer[oldId[t]] = callId[t]
            /\ replacer[oldId[t]] = callId[t]

\* C2 witness: two updates have returned true, and a third allocation was
\* placed at a reused address.
C2_Witness ==
    /\ \E t, u \in RcuThreads : /\ t # u
                                /\ UpdateReturned(t) /\ result[t]
                                /\ UpdateReturned(u) /\ result[u]
    /\ Cardinality({i \in Ids : freed[i] = 1}) >= 2

\* Exactly two update calls were made from the fresh cell, by two threads,
\* overlapping in time, and both have returned.
TwoConcurrentUpdatesReturned ==
    /\ nextId = 4
    /\ \A t \in RcuThreads : UpdateReturned(t) /\ callId[t] # 0 /\ ovl[t]

\* A read that began after both updates had returned, and has returned.
ReadAfterBoth(r) == ReadReturned(r) /\ startRet[r] = 2

\* C3 as stated: exactly one of two concurrent updates of a fresh cell
\* returns true, and a later read yields one of the two new values.
C3_ExactlyOneSucceeds ==
    TwoConcurrentUpdatesReturned =>
        /\ Cardinality({t \in RcuThreads : result[t]}) = 1
        /\ \A r \in Threads : ReadAfterBoth(r) => data[r] \in {2, 3}

\* C3 amended: at least one of the two concurrent updates returns true, and
\* a later read yields the new value of the last successful one, never the
\* initial value.
C3_AtLeastOneSucceeds ==
    TwoConcurrentUpdatesReturned =>
        /\ Cardinality({t \in RcuThreads : result[t]}) >= 1
        /\ \A r \in Threads :
             ReadAfterBoth(r) => (data[r] \in {2, 3} /\ data[r] = order[Len(order)])

\* C3 witness: both outcomes of the race, seen by a later read.
C3_Witness ==
    /\ TwoConcurrentUpdatesReturned
    /\ \E r \in Threads : ReadAfterBoth(r)
    /\ \E t \in RcuThreads : ~result[t]

\* C3 witness of the case the statement misses: both calls returned true.
C3_WitnessBothTrue ==
    /\ TwoConcurrentUpdatesReturned
    /\ \A t \in RcuThreads : result[t]

\* Positions from which every step of update belongs to a call that has
\* not succeeded its compare-exchange.
BeforeOrFailed == {"u_prev", "u_flag", "u_cas", "u_dropneo"}

\* An update call of thread t has returned false.
UpdateFailed(t) == UpdateReturned(t) /\ callId[t] # 0 /\ ~result[t]

\* The state part of C4: the rejected value was never installed, no reader
\* has loaded or returned it, and it has been freed once, by its own call.
RejectedValueGone ==
    \A t \in RcuThreads :
        UpdateFailed(t) =>
            /\ Ver(callId[t]) = 0
            /\ freed[callId[t]] = 1 /\ freer[callId[t]] = callId[t]
            /\ \A a \in Addr : heap[a] # callId[t]
            /\ \A r \in Threads : rid[r] # callId[t] /\ data[r] # callId[t]

\* C4: no step of an update call that fails writes data_ptr, prev_ptr,
\* cur_readers or write_flag (its steps are the allocation, the steps up to
\* a compare-exchange that fails, and the drop of neo), and once it has
\* returned false the rejected value is gone, freed once and never seen.
C4_FailedUpdateChangesNothing ==
    [][ /\ \A t \in RcuThreads :
             ( /\ Moved(t)
               /\ \/ pc'[t] = "u_prev"
                  \/ (pc[t] \in BeforeOrFailed /\ pc'[t] # "u_setflag") )
             => UNCHANGED cell
        /\ RejectedValueGone' ]_vars

\* C4 witness: an update has returned false after another writer moved the
\* cell, and its allocation is no longer live.
C4_Witness ==
    \E t \in RcuThreads :
        /\ UpdateFailed(t) /\ freed[callId[t]] = 1
        /\ \E w \in RcuThreads : InCritical(w)

\* C5: a reader that registered after k successful compare-exchanges loads,
\* and returns, the version installed by the k-th or a later one.
C5_ReadAfterCasSeesNewVersion ==
    \A t \in Threads :
        /\ Holding(t) => Ver(rid[t]) >= regVer[t]
        /\ ReadReturned(t) => Ver(data[t]) >= regVer[t]

\* C5 witness: a read registered after a successful update's
\* compare-exchange, while that writer had not yet stored prev_ptr, and
\* has returned.
C5_Witness ==
    \E t \in Threads, w \in RcuThreads :
        /\ ReadReturned(t) /\ regVer[t] >= 2
        /\ InCritical(w) /\ Ver(callId[w]) = regVer[t]

\* C6: the successful updates are ordered by their compare-exchanges, each
\* installed once, the cell holding the last; and a read returns no
\* version older than one returned by a read that had returned before it
\* began.
C6_ReadsRespectUpdateOrder ==
    /\ \A j, k \in 1..Len(order) : order[j] = order[k] => j = k
    /\ heap[data_ptr] = order[Len(order)]
    /\ \A t \in Threads : ReadReturned(t) => Ver(data[t]) >= floor[t]

\* C6 witness: a read began after another had returned the second version
\* or a later one, and has returned.
C6_Witness ==
    \E t \in Threads : ReadReturned(t) /\ floor[t] >= 2 /\ Len(order) >= 3

\* C7 as stated: an update call that overlaps no other update call
\* returns true.
C7_LoneUpdateSucceeds ==
    \A t \in RcuThreads :
        (UpdateReturned(t) /\ callId[t] # 0 /\ ~ovl[t]) => result[t]

\* Some call is in progress.
SomeCallInProgress == \E t \in Threads : pc[t] \in InUpdate \cup InRead
\* No update call is in progress.
NoUpdateInProgress == \A t \in Threads : pc[t] \notin InUpdate

\* C8: every update call in progress eventually returns, and whenever a
\* call is in progress some thread can take a step that changes the state
\* (no writer waits for readers that wait for the writer).
C8_UpdateEventuallyReturns ==
    /\ \A t \in RcuThreads : (pc[t] \in InUpdate) ~> (pc[t] = "u_ret")
    /\ [](SomeCallInProgress => ENABLED <<Next>>_vars)

\* C8 witness: a writer is in its drain loop with a reader registered while
\* another update waits for write_flag to clear.
C8_Witness ==
    \E w, u \in RcuThreads, r \in Threads :
        /\ pc[w] = "u_drain" /\ cur_readers > 0 /\ Holding(r)
        /\ pc[u] = "u_flag" /\ write_flag

\* C9: when no update is in progress write_flag is false, so no read
\* spins; a reader past the gate can always take its next step, whatever
\* the other readers do; every read call eventually returns; and
\* write_flag, once set, is eventually cleared.
C9_ReadersWaitOnlyForWriters ==
    /\ [](NoUpdateInProgress => ~write_flag)
    /\ [](\A t \in Threads :
            pc[t] \in {"r_inc", "r_load", "r_clone", "r_dec"}
                => ENABLED <<ThreadNext(t)>>_vars)
    /\ \A t \in Threads : (pc[t] \in InRead) ~> (pc[t] = "r_ret")
    /\ write_flag ~> ~write_flag

\* C9 witness: a reader is at the gate while it is closed, with another
\* reader registered.
C9_Witness ==
    \E t, r \in Threads :
        /\ t # r /\ pc[t] = "r_flag" /\ write_flag /\ Holding(r)

\* C10 as stated: no read increments cur_readers while write_flag is true.
C10_NoRegistrationWhileGateClosed ==
    [][ \A t \in Threads :
          (pc[t] = "r_inc" /\ pc'[t] = "r_load") => ~write_flag ]_vars

\* C10, second part as stated: cur_readers is not incremented between a
\* writer's observation of zero and its freeing of the old version.
C10_NoRegistrationBeforeFree ==
    [][ \A t \in Threads :
          (pc[t] = "r_inc" /\ pc'[t] = "r_load") =>
              \A w \in RcuThreads : pc[w] \notin {"u_storeprev", "u_dropold"} ]_vars

\* The writers inside the critical section.
Writers == {t \in RcuThreads : InCritical(t)}

\* C11 as stated: at most one update call is between its successful
\* compare-exchange and its final store to write_flag, and no
\* compare-exchange succeeds while another writer is in that section.
C11_OneWriterInCritical ==
    /\ [](Cardinality(Writers) <= 1)
    /\ [][ \A t \in RcuThreads :
             (pc[t] = "u_cas" /\ pc'[t] = "u_setflag") => Writers = {} ]_vars

\* Thread t has set write_flag and not yet cleared it.
FlagHeldBy(t) == pc[t] \in {"u_drain", "u_storeprev", "u_dropold", "u_clearflag"}

\* C12 as stated: whenever write_flag is true some writer has succeeded its
\* compare-exchange and has not yet freed the version it replaced; and
\* write_flag is false when no update call is in progress.
C12_FlagOnlyBeforeFree ==
    /\ write_flag =>
         \E t \in RcuThreads : InCritical(t) /\ freed[oldId[t]] = 0
    /\ NoUpdateInProgress => ~write_flag

\* C12 amended: whenever write_flag is true some writer has succeeded its
\* compare-exchange, has stored true to write_flag and has not yet stored
\* false to it (the store of false follows the free); write_flag is false
\* when no update call is in progress; and write_flag is written by no step
\* outside the critical section.
C12_FlagOnlyInCritical ==
    /\ [](write_flag => \E t \in RcuThreads : FlagHeldBy(t))
    /\ [](NoUpdateInProgress => ~write_flag)
    /\ [][ write_flag' # write_flag =>
             \E t \in RcuThreads :
                 \/ pc[t] = "u_setflag" /\ pc'[t] = "u_drain" /\ write_flag'
                 \/ pc[t] = "u_clearflag" /\ pc'[t] = "u_ret" /\ ~write_flag' ]_vars

\* C12 witness: write_flag is true while the only writer in the critical
\* section has already freed the version it replaced.
C12_Witness ==
    /\ write_flag
    /\ \E t \in RcuThreads : pc[t] = "u_clearflag" /\ freed[oldId[t]] = 1
    /\ Cardinality(Writers) = 1

\* C13: data_ptr is never null and designates a live allocation that has
\* not been freed, the version installed by the last successful
\* compare-exchange.
C13_DataPtrLive ==
    /\ data_ptr # Null
    /\ heap[data_ptr] # 0
    /\ freed[heap[data_ptr]] = 0
    /\ heap[data_ptr] = order[Len(order)]

\* C13 witness: after an address was reused two writers are in the
\* critical section at once, and one of them has freed the version it
\* replaced while the other has not.
C13_Witness ==
    /\ Cardinality(Writers) = 2
    /\ \E t, u \in Writers : /\ pc[t] = "u_clearflag" /\ freed[oldId[t]] = 1
                             /\ pc[u] = "u_dropold" /\ freed[oldId[u]] = 0

\* The read calls that have incremented cur_readers and not yet decremented.
Registered == {t \in Threads : pc[t] \in {"r_load", "r_clone", "r_dec"}}

\* C14: cur_readers is the number of read calls between their increment
\* and their decrement, so it never wraps below zero and is zero when no
\* read is in progress; and no step of update writes it.
C14_CurReadersCountsRegistered ==
    /\ [](cur_readers = Cardinality(Registered))
    /\ []((\A t \in Threads : pc[t] \notin InRead) => cur_readers = 0)
    /\ [][ cur_readers' # cur_readers =>
             \E t \in Threads :
                 \/ pc[t] = "r_inc" /\ pc'[t] = "r_load"
                 \/ pc[t] = "r_dec" /\ pc'[t] = "r_ret" ]_vars

\* C14 witness: a read through Rcu and a read through a subscriber are
\* both registered while a writer waits in its drain loop.
C14_Witness ==
    /\ cur_readers = 2
    /\ \E t \in RcuThreads, r \in SubThreads : {t, r} \subseteq Registered
    /\ \E w \in RcuThreads : pc[w] = "u_drain"

\* Thread t can take a step that changes the state: it is not waiting.
CanStep(t) == ENABLED <<ThreadNext(t)>>_vars

\* C15 as stated: an update call waits nowhere but in its drain loop; in
\* particular it is not held up by write_flag before its compare-exchange.
C15_UpdateWaitsOnlyInDrain ==
    \A t \in RcuThreads : pc[t] \in InUpdate \ {"u_drain"} => CanStep(t)

\* C15 amended: an update call waits in two places and nowhere else: in the
\* loop on write_flag before its compare-exchange, exactly while write_flag
\* is true, which another writer holding the flag has set; and in the drain
\* loop after its own successful compare-exchange, exactly while
\* cur_readers is above zero.
C15_UpdateWaitsAtGateAndDrain ==
    \A t \in RcuThreads :
        /\ pc[t] \in InUpdate \ {"u_flag", "u_drain"} => CanStep(t)
        /\ pc[t] = "u_flag" => (CanStep(t) <=> ~write_flag)
        /\ (pc[t] = "u_flag" /\ write_flag) =>
               \E w \in RcuThreads \ {t} : FlagHeldBy(w)
        /\ pc[t] = "u_drain" => (CanStep(t) <=> cur_readers = 0)

\* C15 witness: an update call that has not attempted its compare-exchange
\* is held at the loop on write_flag by a writer that has no reader left to
\* wait for.
C15_Witness ==
    \E t, w \in RcuThreads :
        /\ pc[t] = "u_flag" /\ write_flag /\ ~CanStep(t)
        /\ pc[w] = "u_dropold" /\ cur_readers = 0

\* No writer is between its successful compare-exchange and its store to
\* prev_ptr.
NoPendingStorePrev ==
    \A t \in RcuThreads : pc[t] \notin {"u_setflag", "u_drain", "u_storeprev"}

\* C16 as stated: prev_ptr equals data_ptr whenever no writer is between
\* its successful compare-exchange and its store to prev_ptr, and prev_ptr
\* is written only by a writer in its critical section, with the version
\* that writer installed.
C16_PrevTracksData ==
    /\ [](NoPendingStorePrev => prev_ptr = data_ptr)
    /\ [][ prev_ptr' # prev_ptr =>
             \E t \in RcuThreads :
                 /\ pc[t] = "u_storeprev" /\ pc'[t] = "u_dropold"
                 /\ prev_ptr' = neo[t] /\ heap[neo[t]] = callId[t]
                 /\ Ver(callId[t]) > 0 ]_vars

\* C17 as stated: an update call that loaded prev_ptr while another writer
\* was between its successful compare-exchange and its store to prev_ptr
\* fails its compare-exchange and returns false.
C17_StaleLoadFails ==
    \A t \in RcuThreads :
        stale[t] => /\ ~InCritical(t)
                    /\ (UpdateReturned(t) => ~result[t])

\* Thread t's compare-exchange has succeeded, in the call in progress or in
\* its last call.
Succeeded(t) == InCritical(t) \/ (UpdateReturned(t) /\ result[t])

\* C18 as stated: a writer succeeds its compare-exchange only if no other
\* writer's compare-exchange succeeded since it loaded prev_ptr, also when
\* addresses are reused; so at most one writer is in the critical section,
\* and when no update call is in progress prev_ptr equals data_ptr and
\* designates a live version.
C18_PointerIdentitySound ==
    /\ \A t \in RcuThreads : Succeeded(t) => Ver(callId[t]) = loadVer[t] + 1
    /\ Cardinality(Writers) <= 1
    /\ NoUpdateInProgress => (prev_ptr = data_ptr /\ heap[prev_ptr] # 0)

====
